---- MODULE Spec2Model ----
(***************************************************************************)
(* Model of ansi-examples/progress_demo.py: main() prints a two-line       *)
(* banner, iterates over tqdm(range(100)) sleeping 0.01 s per element, and *)
(* prints "\nDone!".  The progress indicator (tqdm) is an external         *)
(* component: each call into it either returns or raises, and main() has   *)
(* no exception handler.                                                   *)
(***************************************************************************)
EXTENDS Integers, Sequences, FiniteSets

VARIABLES
    pc,        \* position of the interpreter inside the script
    n,         \* length of the sequence handed to tqdm: len(range(...))
    i,         \* position of the range iterator = elements consumed and slept on
    trace,     \* events of the current run, oldest first
    clock,     \* logical clock of the current run, in milliseconds
    failed,    \* the progress indicator raised during the current run
    exitCode,  \* exit status of the process, -1 while it is running
    run,       \* ordinal of the current run of the script
    first      \* <<>> or <<summary of the first completed run>>

vars == <<pc, n, i, trace, clock, failed, exitCode, run, first>>

----------------------------------------------------------------------------
\* Bounds of the model (not program constants).

\* Largest sequence length tried when the loop is parameterised by its length.
MaxN == 8

\* Number of consecutive runs of the script.
MaxRuns == 2

----------------------------------------------------------------------------
\* Program constants.

\* range(100)
N == 100

\* "-" * 30
SepLen == 30

\* time.sleep(0.01), in milliseconds
SleepMs == 10

NL == "\n"

\* "Simple Progress Bar Demo"
Title ==
    << "S","i","m","p","l","e"," ","P","r","o","g","r","e","s","s"," ",
       "B","a","r"," ","D","e","m","o" >>

\* "\nDone!"
DoneText == << NL, "D","o","n","e","!" >>

----------------------------------------------------------------------------
\* Pure helpers.

\* Variant of Repeat: the count is off by one.
RECURSIVE RepeatOneMore(_, _)
RepeatOneMore(s, k) == IF k < 0 THEN <<>> ELSE s \o RepeatOneMore(s, k - 1)

\* Python's  s * k  for a sequence s.
RECURSIVE Repeat(_, _)
Repeat(s, k) == IF k <= 0 THEN <<>> ELSE s \o Repeat(s, k - 1)

\* Index of the first newline of s, 0 when there is none.
RECURSIVE FirstNL(_, _)
FirstNL(s, from) ==
    IF from > Len(s) THEN 0
    ELSE IF s[from] = NL THEN from
    ELSE FirstNL(s, from + 1)

\* The lines a character stream shows on the terminal.
RECURSIVE SplitLines(_)
SplitLines(s) ==
    IF s = <<>> THEN <<>>
    ELSE LET p == FirstNL(s, 1) IN
         IF p = 0 THEN << s >>
         ELSE << SubSeq(s, 1, p - 1) >> \o SplitLines(SubSeq(s, p + 1, Len(s)))

LineEv(text)  == [kind |-> "line",   text |-> text, idx |-> -1, ms |-> 0]
UpdateEv(j)   == [kind |-> "update", text |-> <<>>, idx |-> j,  ms |-> 0]
SleepEv(j, d) == [kind |-> "sleep",  text |-> <<>>, idx |-> j,  ms |-> d]

\* print(text): writes text followed by end="\n" to standard output.
PrintEvents(text) ==
    LET ls == SplitLines(text \o << NL >>) IN
    [k \in 1..Len(ls) |-> LineEv(ls[k])]

\* Variant of Exhausted: the loop stops one element early.
ExhaustedOffByOne(pos, len) == pos >= len - 1

\* Variant of Exhausted: the emptiness test comes after the first element.
ExhaustedInclusive(pos, len) == pos > len

\* The range iterator has no further element.
Exhausted(pos, len) == pos >= len

IsKind(e, k) == e.kind = k

Count(tr, k) == Cardinality({p \in 1..Len(tr) : IsKind(tr[p], k)})

IsLine(e)   == IsKind(e, "line")
IsUpdate(e) == IsKind(e, "update")
IsSleep(e)  == IsKind(e, "sleep")

\* What the user sees of a run: lines and progress updates, not the pauses.
Observable(tr) == SelectSeq(tr, LAMBDA e : ~IsSleep(e))

StdoutLines(tr) ==
    LET ls == SelectSeq(tr, IsLine) IN [k \in 1..Len(ls) |-> ls[k].text]

Summary ==
    [iters |-> Count(trace, "sleep"), lines |-> StdoutLines(trace), code |-> exitCode]

----------------------------------------------------------------------------
\* Initial states.

Fresh ==
    /\ pc = "print_title"
    /\ i = 0
    /\ trace = <<>>
    /\ clock = 0
    /\ failed = FALSE
    /\ exitCode = -1

Init ==
    /\ Fresh
    /\ n = N
    /\ run = 1
    /\ first = <<>>

\* The loop parameterised by the sequence length.
InitN ==
    /\ Fresh
    /\ n \in 0..MaxN
    /\ run = 1
    /\ first = <<>>

----------------------------------------------------------------------------
\* Actions.

\* line 11
PrintTitle ==
    /\ pc = "print_title"
    /\ trace' = trace \o PrintEvents(Title)
    /\ pc' = "print_sep"
    /\ UNCHANGED <<n, i, clock, failed, exitCode, run, first>>

\* line 12
PrintSeparator ==
    /\ pc = "print_sep"
    /\ trace' = trace \o PrintEvents(Repeat(<< "-" >>, SepLen))
    /\ pc' = "wrap"
    /\ UNCHANGED <<n, i, clock, failed, exitCode, run, first>>

\* line 15: tqdm(range(n), desc=..., unit=...) returns
WrapOk ==
    /\ pc = "wrap"
    /\ pc' = "next"
    /\ UNCHANGED <<n, i, trace, clock, failed, exitCode, run, first>>

\* line 15: tqdm(...) raises
WrapFail ==
    /\ pc = "wrap"
    /\ failed' = TRUE
    /\ pc' = "raise"
    /\ UNCHANGED <<n, i, trace, clock, exitCode, run, first>>

\* Variant of IterYield: the element is handed out without an indicator update.
IterYieldNoUpdate ==
    /\ pc = "next"
    /\ ~Exhausted(i, n)
    /\ pc' = "sleep"
    /\ UNCHANGED <<n, i, trace, clock, failed, exitCode, run, first>>

\* Variant of IterYield: the driver also prints a line in every iteration.
IterYieldPrints ==
    /\ pc = "next"
    /\ ~Exhausted(i, n)
    /\ trace' = Append(trace, UpdateEv(i)) \o PrintEvents(<< "." >>)
    /\ pc' = "sleep"
    /\ UNCHANGED <<n, i, clock, failed, exitCode, run, first>>

\* line 15: the iterator yields element i, the indicator is updated
IterYield ==
    /\ pc = "next"
    /\ ~Exhausted(i, n)
    /\ trace' = Append(trace, UpdateEv(i))
    /\ pc' = "sleep"
    /\ UNCHANGED <<n, i, clock, failed, exitCode, run, first>>

\* Variant of IterExhausted: the loop may be left before the iterator is exhausted.
IterExhaustedEarly ==
    /\ pc = "next"
    /\ pc' = "print_done"
    /\ UNCHANGED <<n, i, trace, clock, failed, exitCode, run, first>>

\* line 15: the iterator is exhausted, the loop ends
IterExhausted ==
    /\ pc = "next"
    /\ Exhausted(i, n)
    /\ pc' = "print_done"
    /\ UNCHANGED <<n, i, trace, clock, failed, exitCode, run, first>>

\* line 15: the indicator raises while the loop asks for the next element
IterFail ==
    /\ pc = "next"
    /\ failed' = TRUE
    /\ pc' = "raise"
    /\ UNCHANGED <<n, i, trace, clock, exitCode, run, first>>

\* Variant of Sleep: the pause is shorter than the configured one.
SleepShort ==
    /\ pc = "sleep"
    /\ clock' = clock + 1
    /\ trace' = Append(trace, SleepEv(i, 1))
    /\ i' = i + 1
    /\ pc' = "next"
    /\ UNCHANGED <<n, failed, exitCode, run, first>>

\* line 16
Sleep ==
    /\ pc = "sleep"
    /\ clock' = clock + SleepMs
    /\ trace' = Append(trace, SleepEv(i, SleepMs))
    /\ i' = i + 1
    /\ pc' = "next"
    /\ UNCHANGED <<n, failed, exitCode, run, first>>

\* line 18
PrintDone ==
    /\ pc = "print_done"
    /\ trace' = trace \o PrintEvents(DoneText)
    /\ pc' = "return"
    /\ UNCHANGED <<n, i, clock, failed, exitCode, run, first>>

\* Variant of Exit: normal completion reports a failure status.
ExitNonzero ==
    /\ pc = "return"
    /\ exitCode' = 1
    /\ pc' = "exit"
    /\ first' = IF first = <<>>
                THEN << [Summary EXCEPT !.code = 1] >>
                ELSE first
    /\ UNCHANGED <<n, i, trace, clock, failed, run>>

\* lines 20-21: main() returns, the interpreter exits with status 0
Exit ==
    /\ pc = "return"
    /\ exitCode' = 0
    /\ pc' = "exit"
    /\ first' = IF first = <<>>
                THEN << [Summary EXCEPT !.code = 0] >>
                ELSE first
    /\ UNCHANGED <<n, i, trace, clock, failed, run>>

\* Variant of Unhandled: the exception is caught and the update retried.
CaughtAndRetried ==
    /\ pc = "raise"
    /\ pc' = "next"
    /\ UNCHANGED <<n, i, trace, clock, failed, exitCode, run, first>>

\* lines 10-21: no try/except anywhere, the exception reaches the interpreter,
\* which prints a traceback and exits with status 1
Unhandled ==
    /\ pc = "raise"
    /\ exitCode' = 1
    /\ pc' = "exit"
    /\ first' = IF first = <<>>
                THEN << [Summary EXCEPT !.code = 1] >>
                ELSE first
    /\ UNCHANGED <<n, i, trace, clock, failed, run>>

\* Variant of Rerun: the iterator position survives from the previous run.
RerunKeepsIterator ==
    /\ pc = "exit"
    /\ run < MaxRuns
    /\ run' = run + 1
    /\ pc' = "print_title"
    /\ trace' = <<>>
    /\ clock' = 0
    /\ failed' = FALSE
    /\ exitCode' = -1
    /\ UNCHANGED <<n, i, first>>

\* lines 20-21: the script is started again; main() has only locals
Rerun ==
    /\ pc = "exit"
    /\ run < MaxRuns
    /\ run' = run + 1
    /\ pc' = "print_title"
    /\ i' = 0
    /\ trace' = <<>>
    /\ clock' = 0
    /\ failed' = FALSE
    /\ exitCode' = -1
    /\ UNCHANGED <<n, first>>

Next ==
    \/ PrintTitle
    \/ PrintSeparator
    \/ WrapOk
    \/ WrapFail
    \/ IterYield
    \/ IterExhausted
    \/ IterFail
    \/ Sleep
    \/ PrintDone
    \/ Exit
    \/ Unhandled

NextRerun == Next \/ Rerun

\* One run of the script as written.
Spec == Init /\ [][Next]_vars

\* One run; the interpreter keeps executing and every call returns or raises.
FairSpec == Init /\ [][Next]_vars /\ WF_vars(Next)

\* One run with the sequence length as a parameter.
SpecN == InitN /\ [][Next]_vars

\* Consecutive runs of the script.
SpecRerun == Init /\ [][NextRerun]_vars

----------------------------------------------------------------------------
\* Vocabulary of the properties.

DoneLine == << "D","o","n","e","!" >>

Dashes30 == [k \in 1..30 |-> "-"]

DonePrinted ==
    \E p \in 1..Len(trace) : IsLine(trace[p]) /\ trace[p].text = DoneLine

Positions(k) == {p \in 1..Len(trace) : IsKind(trace[p], k)}

\* Number of sleep events among the first p events of the run.
SleepsBefore(p) == Cardinality({q \in 1..p : IsSleep(trace[q])})

ExpectedLines == << Title, Dashes30, <<>>, DoneLine >>

ExpectedObservable ==
    << LineEv(Title), LineEv(Dashes30) >>
        \o [k \in 1..100 |-> UpdateEv(k - 1)]
        \o << LineEv(<<>>), LineEv(DoneLine) >>

NormalExit == pc = "exit" /\ exitCode = 0

----------------------------------------------------------------------------
\* C1: once "Done!" has been printed, the indicator update and the sleep have
\* each been performed exactly N = 100 times, never fewer and never more.
C1_ExactlyNIterations ==
    DonePrinted =>
        /\ Count(trace, "update") = 100
        /\ Count(trace, "sleep") = 100
        /\ N = 100

C1_Witness ==
    /\ pc = "return"
    /\ ~failed
    /\ DonePrinted
    /\ Count(trace, "update") = 100

\* C2: in every reachable state, "Done!" printed implies that every iteration
\* of the loop is finished: none is pending (the iterator is at the end) and
\* none is in progress (control has left the loop).
C2_DoneOnlyAfterLoop ==
    DonePrinted =>
        /\ i = n
        /\ pc \in {"return", "exit"}
        /\ \A j \in 0..(n - 1) :
              /\ \E p \in Positions("update") : trace[p].idx = j
              /\ \E p \in Positions("sleep") : trace[p].idx = j

C2_Witness ==
    /\ pc = "exit"
    /\ DonePrinted
    /\ i = 100
    /\ Positions("sleep") # {}

\* C3: a run that completes normally shows exactly the title line, a separator
\* of 30 dashes, 100 indicator updates, an empty line and "Done!", in this
\* order; in every prefix of a run no update precedes the separator and no
\* banner line follows an update.
C3_EventOrder ==
    /\ NormalExit => Observable(trace) = ExpectedObservable
    /\ \A p \in Positions("update") :
          /\ p > 2
          /\ trace[1] = LineEv(Title)
          /\ trace[2] = LineEv(Dashes30)
          /\ Len(trace[2].text) = 30
    /\ \A q \in Positions("line") :
          q > 2 => trace[q].text \notin {Title, Dashes30}

C3_Witness ==
    /\ NormalExit
    /\ Len(Observable(trace)) = 104
    /\ Len(trace[2].text) = 30

\* C4: once the progress indicator has raised, the driver neither catches the
\* exception nor retries: control is on the way out, no further update, sleep
\* or print happens, "Done!" is never printed, and the process ends with a
\* nonzero exit status.
C4_FailurePropagates ==
    /\ [](failed =>
            /\ pc \in {"raise", "exit"}
            /\ ~DonePrinted
            /\ (pc = "exit" => exitCode > 0))
    /\ [][failed => /\ failed'
                    /\ trace' = trace
                    /\ clock' = clock
                    /\ i' = i
                    /\ pc' = "exit"]_vars
    /\ (failed ~> (pc = "exit" /\ exitCode > 0))

C4_Witness ==
    /\ failed
    /\ pc = "exit"
    /\ exitCode > 0
    /\ i = 50
    /\ Count(trace, "update") = 50

\* C5: every run terminates; a run in which the indicator never raised ends
\* after "Done!" with exit status 0, and a nonzero exit status occurs only in
\* runs in which the indicator raised.
C5_Terminates ==
    /\ <>(pc = "exit")
    /\ [](pc = "exit" /\ ~failed => exitCode = 0 /\ DonePrinted)
    /\ [](exitCode \notin {-1, 0} => failed)

C5_Witness ==
    /\ pc = "exit"
    /\ ~failed
    /\ exitCode = 0
    /\ DonePrinted

\* C6: with an empty sequence (n = 0) the loop body never runs (no update, no
\* sleep), and a run that completes normally still prints the completion
\* output, as the print event that directly follows the two banner lines.
C6_EmptySequence ==
    n = 0 =>
        /\ Count(trace, "sleep") = 0
        /\ Count(trace, "update") = 0
        /\ clock = 0
        /\ NormalExit =>
              /\ DonePrinted
              /\ trace = << LineEv(Title), LineEv(Dashes30),
                            LineEv(<<>>), LineEv(DoneLine) >>

C6_Witness ==
    /\ n = 0
    /\ NormalExit
    /\ DonePrinted
    /\ Len(trace) = 4

\* C7: over consecutive runs, every run begins from the same state (nothing a
\* previous run wrote is left), and every run that completes normally performs
\* 100 iterations and writes the same banner and completion text as the first
\* run.
C7_RerunIdempotent ==
    /\ pc = "print_title" =>
          /\ i = 0
          /\ trace = <<>>
          /\ clock = 0
          /\ ~failed
          /\ exitCode = -1
    /\ NormalExit =>
          /\ Summary.iters = 100
          /\ Summary.lines = ExpectedLines
          /\ first # <<>>
          /\ first[1].code = 0 => Summary = first[1]

C7_Witness ==
    /\ run = 2
    /\ NormalExit
    /\ first[1].code = 0
    /\ Summary.iters = 100

\* C8: on the logical clock that advances by the sleep duration at every
\* sleep, at least N * 10 ms = 1000 ms have elapsed when "Done!" is printed;
\* every element consumed so far has had exactly one sleep, and every sleep
\* lasted the same 10 ms.
C8_ElapsedLowerBound ==
    /\ DonePrinted => clock >= N * SleepMs /\ clock >= 1000
    /\ \A p \in Positions("sleep") : trace[p].ms = 10
    /\ \A j \in 0..(i - 1) :
          Cardinality({p \in Positions("sleep") : trace[p].idx = j}) = 1
    /\ Count(trace, "sleep") = i
    /\ clock = 10 * i

C8_Witness ==
    /\ DonePrinted
    /\ clock = 1000
    /\ Count(trace, "sleep") = 100

\* C9: within every iteration the indicator update for the element comes
\* first and the sleep for that element directly after it; no sleep for
\* element j precedes the update for element j.
C9_UpdateBeforeSleep ==
    /\ \A p \in Positions("sleep") :
          /\ p > 1
          /\ trace[p - 1] = UpdateEv(trace[p].idx)
    /\ pc = "sleep" => trace # <<>> /\ trace[Len(trace)] = UpdateEv(i)

C9_Witness ==
    /\ pc = "next"
    /\ i = 3
    /\ Count(trace, "sleep") = 3
    /\ Count(trace, "update") = 3

\* C10 as stated: on a run without failure the driver's standard output is
\* exactly two banner lines and exactly one completion line.
C10_Original ==
    NormalExit =>
        /\ Len(StdoutLines(trace)) = 3
        /\ Cardinality({p \in Positions("line") : SleepsBefore(p) = 0}) = 2
        /\ Cardinality({p \in Positions("line") : SleepsBefore(p) = n}) = 1

\* C10 as amended: on a run without failure the driver's standard output is
\* exactly two banner lines, written before the first iteration, and, written
\* after the last iteration, an empty line followed by the one completion
\* line "Done!"; in every prefix of a run the driver writes no line between
\* the separator and that completion output.
C10_DriverOutput ==
    /\ NormalExit =>
          /\ StdoutLines(trace) = ExpectedLines
          /\ Positions("line") = {1, 2, Len(trace) - 1, Len(trace)}
    /\ \A p \in Positions("line") :
          \/ p <= 2
          \/ /\ SleepsBefore(p) = n
             /\ p >= Len(trace) - 1
             /\ pc \in {"return", "exit"}

C10_Witness ==
    /\ NormalExit
    /\ Len(StdoutLines(trace)) = 4
    /\ Count(trace, "update") = 100

====
